---- MODULE Spec2Model ----
(***************************************************************************)
(* The raffle app of src/App.tsx: the draw/state lifecycle of the App      *)
(* component (winners, appState, the winner modal, the delayed commit      *)
(* timer) and the cookie that persists the winner history.                 *)
(*                                                                         *)
(* src/App.tsx holds two versions of the component.  `ver` says which one  *)
(* is running: 1 is the first (lines 1-424), 2 the second (lines 426-824). *)
(* Every operation is modelled for both.                                   *)
(***************************************************************************)
EXTENDS Integers, Sequences, FiniteSets, TLC

VARIABLES
    ver,               \* which App of src/App.tsx is running (1 or 2)
    participants,      \* useState<Participant[]>(initialParticipants)
    jar,               \* document.cookie: a sequence of [name, value] cookies
    loaded,            \* the mount effects (cookie load, first save) have run
    crashed,           \* a render threw; React unmounted the tree
    winners,           \* useState<Winner[]>([])
    appState,          \* useState<AppState>(AppState.READY)
    showWinnerModal,   \* useState(false)
    lastWinner,        \* useState<Winner | null>(null)
    currentDrawnName,  \* useState<string | null>(null)   (first App only)
    timers,            \* pending setTimeout callbacks, oldest first
    lastOp,            \* the handler that ran last, and how it ended
    celebration        \* what the last step passed to triggerCelebration

vars == <<ver, participants, jar, loaded, crashed, winners, appState,
          showWinnerModal, lastWinner, currentDrawnName, timers, lastOp,
          celebration>>

----------------------------------------------------------------------------
(* Bounds of the model. *)

NumPrizes == 3          \* PRIZES.length
MaxParticipants == 4    \* DEFAULT_PARTICIPANTS.length ranges over 0..MaxParticipants
MaxTime == 1            \* Date.now() ranges over 1..MaxTime

----------------------------------------------------------------------------
(* JavaScript values. *)

UndefinedValue == [undefined |-> TRUE]
NullValue == [null |-> TRUE]

(* AppState of the types file. *)
SETUP == "SETUP"
READY == "READY"
DRAWING == "DRAWING"
FINISHED == "FINISHED"
AppStates == {SETUP, READY, DRAWING, FINISHED}

(* ./constants is not among the sources; its values are taken from the     *)
(* data model of the specification: prizes have a unique integer rank/id   *)
(* used as identity and ordering key, participants a display name.         *)
APP_STORAGE_KEY == "storage_key"
DEFAULT_CONGRATS_MESSAGE == "congrats"

PRIZES ==
    [i \in 1..NumPrizes |->
        [id |-> i, rank |-> i, name |-> "prize", value |-> "value",
         icon |-> "icon", isBigWinner |-> (i = 1)]]

(* Display names need not be unique: every second name is the same. *)
ParticipantName(i) == IF i % 2 = 0 THEN "Bat" ELSE "Dorj"

(* DEFAULT_PARTICIPANTS.map((name, i) => ({ id: `p-${i}`, name })) for a   *)
(* list of n names; the id `p-${i}` is modelled by the index i.            *)
initialParticipants(n) ==
    [k \in 1..n |-> [id |-> k - 1, name |-> ParticipantName(k - 1)]]

----------------------------------------------------------------------------
(* Array helpers. *)

(* Insert p into a sequence sorted by descending id, before equal ids. *)
RECURSIVE InsertDesc(_, _)
InsertDesc(p, s) ==
    IF s = <<>> THEN <<p>>
    ELSE IF p.id >= Head(s).id THEN <<p>> \o s
         ELSE <<Head(s)>> \o InsertDesc(p, Tail(s))

(* Array.prototype.sort((a, b) => b.id - a.id): stable, descending id. *)
RECURSIVE SortDescById(_)
SortDescById(s) ==
    IF s = <<>> THEN <<>>
    ELSE InsertDesc(Head(s), SortDescById(Tail(s)))

Last(s) == s[Len(s)]

----------------------------------------------------------------------------
(* Cookie helpers (lines 12-24, 437-449).                                  *)
(* A string handed to the cookie is a text: the empty string, the text of  *)
(* a JSON value, or text JSON.parse rejects.  document.cookie only holds   *)
(* percent-encoded values.                                                 *)

EmptyString == [kind |-> "empty"]
GarbageText == [kind |-> "garbage"]
JsonText(v) == [kind |-> "json", value |-> v]

encodeURIComponent(text) == [encoded |-> text]
decodeURIComponent(enc) == enc.encoded

(* document.cookie = `${name}=${value}; expires=${expires}; ...`: an       *)
(* expiry in the past (days < 0) removes the cookie of that name, any      *)
(* other one replaces it in place or adds it.                              *)
setCookie(j, name, value, days) ==
    LET entry == [name |-> name, value |-> encodeURIComponent(value)]
        others == SelectSeq(j, LAMBDA c : c.name # name)
    IN  IF days < 0 THEN others
        ELSE IF \E i \in 1..Len(j) : j[i].name = name
             THEN [i \in 1..Len(j) |-> IF j[i].name = name THEN entry ELSE j[i]]
             ELSE Append(j, entry)

(* document.cookie.split("; ").reduce((r, v) => ..., ""): the value of the *)
(* last cookie called name, decoded, or "" when there is none.             *)
RECURSIVE CookieReduce(_, _, _)
CookieReduce(j, name, r) ==
    IF j = <<>> THEN r
    ELSE CookieReduce(Tail(j), name,
                      IF Head(j).name = name
                      THEN decodeURIComponent(Head(j).value) ELSE r)

getCookie(j, name) == CookieReduce(j, name, EmptyString)

(* A serialisation that keeps the prize and leaves the participant out. *)
StringifyWinnerNoParticipant(w) ==
    [prize |-> w.prize, drawnAt |-> w.drawnAt,
     congratsMessage |-> w.congratsMessage]

(* JSON.stringify of one Winner: a property whose value is undefined is    *)
(* left out.  Only participant can be undefined (eligible[0] of an empty   *)
(* array in the second App).                                               *)
StringifyWinner(w) ==
    IF w.participant = UndefinedValue
    THEN [prize |-> w.prize, drawnAt |-> w.drawnAt,
          congratsMessage |-> w.congratsMessage]
    ELSE [participant |-> w.participant, prize |-> w.prize,
          drawnAt |-> w.drawnAt, congratsMessage |-> w.congratsMessage]

(* JSON.stringify({ winners }) *)
StringifyWinners(ws) ==
    JsonText([winners |-> [i \in 1..Len(ws) |-> StringifyWinner(ws[i])]])

(* Reading a property of a parsed object: undefined when it is absent. *)
Prop(o, k) == IF k \in DOMAIN o THEN o[k] ELSE UndefinedValue

(* One element of parsed.winners, read as a Winner. *)
ParsedWinner(o) ==
    [participant |-> Prop(o, "participant"), prize |-> Prop(o, "prize"),
     drawnAt |-> Prop(o, "drawnAt"),
     congratsMessage |-> Prop(o, "congratsMessage")]

(* parsed.winners || [] *)
ParsedWinners(parsed) ==
    IF "winners" \in DOMAIN parsed
    THEN [i \in 1..Len(parsed.winners) |-> ParsedWinner(parsed.winners[i])]
    ELSE <<>>

(* The save effect (lines 183-185, 590-594), run after every render that   *)
(* changed winners.                                                        *)
SaveEffect(j, ws) ==
    IF Len(ws) > 0
    THEN setCookie(j, APP_STORAGE_KEY, StringifyWinners(ws), 7)
    ELSE j

----------------------------------------------------------------------------
(* Values derived on every render. *)

(* remainingPrizes without the filter on the prizes already won. *)
remainingPrizesUnfiltered(ws) == SortDescById(PRIZES)

(* remainingPrizes (lines 187-190, 596-599) *)
remainingPrizes(ws) ==
    LET wonPrizeIds == {ws[i].prize.id : i \in 1..Len(ws)}
    IN  SortDescById(SelectSeq(PRIZES, LAMBDA p : p.id \notin wonPrizeIds))

(* nextPrize taken from the wrong end of remainingPrizes. *)
nextPrizeFromEnd(ws) ==
    IF Len(remainingPrizes(ws)) = 0 THEN UndefinedValue
    ELSE remainingPrizes(ws)[Len(remainingPrizes(ws))]

(* nextPrize = remainingPrizes[0] (lines 192, 601) *)
nextPrize(ws) ==
    IF Len(remainingPrizes(ws)) = 0 THEN UndefinedValue
    ELSE remainingPrizes(ws)[1]

(* eligible without the filter on the participants who already won. *)
eligibleUnfiltered(ps, ws) == ps

(* participants.filter((p) => !winners.find((w) => w.participant.id ===    *)
(* p.id)) (lines 230-232, 639-641).  No render survives a Winner without   *)
(* participant, so w.participant.id is never read from one.                *)
eligible(ps, ws) ==
    SelectSeq(ps, LAMBDA p :
        ~\E i \in 1..Len(ws) :
            /\ ws[i].participant # UndefinedValue
            /\ ws[i].participant.id = p.id)

(* isAllFinished (line 271) *)
isAllFinished(ws, modal) == Len(ws) >= Len(PRIZES) /\ ~modal

(* The render reads w.participant.name of every Winner (lines 400, 774)    *)
(* and of lastWinner in the modal (lines 139, 542): a Winner without       *)
(* participant makes it throw, and React unmounts the component.           *)
RenderThrows(ws) ==
    \E i \in 1..Len(ws) : ws[i].participant = UndefinedValue

----------------------------------------------------------------------------
(* The state machine. *)

Str(s) == [str |-> s]

(* triggerCelebration with its two branches swapped. *)
triggerCelebrationSwapped(isBigWinner) ==
    IF isBigWinner THEN "minor" ELSE "major"

(* What triggerCelebration(isBigWinner) was called with (lines 194-224). *)
triggerCelebration(isBigWinner) == IF isBigWinner THEN "major" ELSE "minor"

(* The cookies a browser may hold when the page is first opened: none,    *)
(* another site cookie, text that does not parse, an object without        *)
(* winners, the text of null.                                              *)
OtherCookie == [name |-> "theme", value |-> encodeURIComponent(GarbageText)]
InitialJars ==
    { <<>>,
      <<OtherCookie>>,
      <<[name |-> APP_STORAGE_KEY, value |-> encodeURIComponent(GarbageText)],
        OtherCookie>>,
      <<[name |-> APP_STORAGE_KEY,
         value |-> encodeURIComponent(JsonText([other |-> 0]))]>>,
      <<[name |-> APP_STORAGE_KEY,
         value |-> encodeURIComponent(JsonText(NullValue))]>> }

(* The useState initial values (lines 163-168, 569-573). *)
Mount ==
    /\ winners = <<>>
    /\ appState = READY
    /\ showWinnerModal = FALSE
    /\ lastWinner = NullValue
    /\ currentDrawnName = NullValue
    /\ timers = <<>>
    /\ loaded = FALSE
    /\ crashed = FALSE
    /\ lastOp = "mount"
    /\ celebration = "none"

Init ==
    /\ ver \in {1, 2}
    /\ \E n \in 0..MaxParticipants : participants = initialParticipants(n)
    /\ jar \in InitialJars
    /\ Mount

(* The component is on screen and its mount effects have run. *)
Running == loaded /\ ~crashed

(* The load effect without its try/catch. *)
LoadOutcomeUncaught(saved) ==
    IF saved = EmptyString THEN "skipped"
    ELSE IF saved.kind # "json" THEN "thrown"
    ELSE IF saved.value = NullValue THEN "thrown"
    ELSE "loaded"

(* How the load effect ends on the cookie text saved (lines 172-180,       *)
(* 578-586): if (saved) skips the empty string; JSON.parse throws on text  *)
(* that is no JSON, and parsed.winners throws on null; both inside the     *)
(* try, whose catch only logs.                                             *)
LoadOutcome(saved) ==
    IF saved = EmptyString THEN "skipped"
    ELSE IF saved.kind # "json" THEN "caught"
    ELSE IF saved.value = NullValue THEN "caught"
    ELSE "loaded"

(* The Winner list a freshly mounted component holds once its load effect  *)
(* has read the cookies j (lines 171-180, 577-586): parsed.winners || [],  *)
(* or the initial [] when there is no cookie or it does not parse.         *)
LoadedWinners(j) ==
    LET saved == getCookie(j, APP_STORAGE_KEY)
    IN  IF LoadOutcome(saved) = "loaded" THEN ParsedWinners(saved.value)
        ELSE <<>>

(* The cookie load effect (lines 170-181, 576-587), followed by the save   *)
(* effect of the render it causes.  An exception leaving the effect would  *)
(* unmount the component.                                                  *)
LoadEffect ==
    /\ ~loaded
    /\ loaded' = TRUE
    /\ lastOp' = "load"
    /\ LET saved == getCookie(jar, APP_STORAGE_KEY)
       IN  IF LoadOutcome(saved) = "loaded"
           THEN LET parsed == saved.value
                    loadedWinners == LoadedWinners(jar)
                IN  /\ winners' = loadedWinners
                    /\ appState' =
                         IF "winners" \in DOMAIN parsed
                            /\ Len(parsed.winners) >= Len(PRIZES)
                         THEN FINISHED ELSE appState
                    /\ crashed' = RenderThrows(loadedWinners)
                    /\ jar' = IF RenderThrows(loadedWinners) THEN jar
                              ELSE SaveEffect(jar, loadedWinners)
           ELSE \* no cookie, or the catch logged what the try threw
                /\ crashed' = (LoadOutcome(saved) = "thrown")
                /\ UNCHANGED <<winners, appState, jar>>
    /\ celebration' = "none"
    /\ UNCHANGED <<ver, participants, showWinnerModal, lastWinner,
                   currentDrawnName, timers>>

(* The early returns without the test for a draw in flight. *)
DrawRejected1Reentrant(ws, ps, st) ==
    \/ nextPrize(ws) = UndefinedValue
    \/ Len(ps) = 0
    \/ Len(eligible(ps, ws)) = 0

(* The early returns of drawWinner in the first App (lines 228-233). *)
DrawRejected1(ws, ps, st) ==
    \/ nextPrize(ws) = UndefinedValue
    \/ Len(ps) = 0
    \/ st = DRAWING
    \/ Len(eligible(ps, ws)) = 0

(* The early return of drawWinner in the second App (line 636). *)
DrawRejected2(ws, ps, st) ==
    \/ nextPrize(ws) = UndefinedValue
    \/ Len(ps) = 0
    \/ st = DRAWING

(* The closure the first App hands to setTimeout (lines 235-243). *)
Timer1(p, prize) == [participant |-> p, prize |-> prize]

(* The closure the second App hands to setTimeout (lines 639-643). *)
Timer2(ps, ws) ==
    [eligible |-> eligible(ps, ws), prize |-> nextPrize(ws),
     remainingLength |-> Len(remainingPrizes(ws))]

(* drawWinner of the first App (lines 226-259), up to setTimeout. *)
DrawWinner1 ==
    /\ ver = 1
    /\ Running
    /\ celebration' = "none"
    /\ IF DrawRejected1(winners, participants, appState)
       THEN /\ lastOp' = "draw_rejected"
            /\ UNCHANGED <<appState, currentDrawnName, timers>>
       ELSE \E k \in 1..Len(eligible(participants, winners)) :
              LET winnerParticipant == eligible(participants, winners)[k]
                  prizeForThisDraw == nextPrize(winners)
              IN  /\ appState' = DRAWING
                  /\ currentDrawnName' = Str(winnerParticipant.name)
                  /\ timers' = Append(timers,
                                      Timer1(winnerParticipant, prizeForThisDraw))
                  /\ lastOp' = "draw_accepted"
    /\ UNCHANGED <<ver, participants, jar, loaded, crashed, winners,
                   showWinnerModal, lastWinner>>

(* drawWinner of the second App (lines 635-657), up to setTimeout. *)
DrawWinner2 ==
    /\ ver = 2
    /\ Running
    /\ celebration' = "none"
    /\ IF DrawRejected2(winners, participants, appState)
       THEN /\ lastOp' = "draw_rejected"
            /\ UNCHANGED <<appState, timers>>
       ELSE /\ appState' = DRAWING
            /\ timers' = Append(timers, Timer2(participants, winners))
            /\ lastOp' = "draw_accepted"
    /\ UNCHANGED <<ver, participants, jar, loaded, crashed, winners,
                   showWinnerModal, lastWinner, currentDrawnName>>

(* The Winner the timer callback builds (lines 244-249, 645-650). *)
NewWinner(p, prize, now) ==
    [participant |-> p, prize |-> prize, drawnAt |-> now,
     congratsMessage |-> DEFAULT_CONGRATS_MESSAGE]

(* An update that puts the new Winner first. *)
AppendWinnerAtFront(prev, newWinner) == <<newWinner>> \o prev

(* An append that runs twice for one callback. *)
AppendWinnerTwice(prev, newWinner) == prev \o <<newWinner, newWinner>>

(* setWinners((prev) => [...prev, newWinner]) (lines 251, 651) *)
AppendWinner(prev, newWinner) == Append(prev, newWinner)

(* The same test, one off. *)
StateAfterDraw2OffByOne(remainingLength) ==
    IF remainingLength = 0 THEN FINISHED ELSE READY

(* The state the second App's callback sets last (line 655). *)
StateAfterDraw2(remainingLength) ==
    IF remainingLength = 1 THEN FINISHED ELSE READY

(* What every timer callback does once newWinner is built: the state       *)
(* updates, the render, and the save effect if the render did not throw.   *)
Commit(newWinner, nextState) ==
    /\ winners' = AppendWinner(winners, newWinner)
    /\ lastWinner' = newWinner
    /\ showWinnerModal' = TRUE
    /\ celebration' = triggerCelebration(newWinner.prize.isBigWinner)
    /\ appState' = nextState
    /\ timers' = Tail(timers)
    /\ crashed' = RenderThrows(winners')
    /\ jar' = IF RenderThrows(winners') THEN jar ELSE SaveEffect(jar, winners')
    /\ lastOp' = "commit"
    /\ UNCHANGED <<ver, participants, loaded, currentDrawnName>>

(* A callback that leaves the state as it found it. *)
StateAfterDraw1Kept == DRAWING

(* The state the first App's callback sets last (line 257). *)
StateAfterDraw1 == READY

(* The timer callback of the first App (lines 243-258). *)
TimerFire1 ==
    /\ ver = 1
    /\ Running
    /\ timers # <<>>
    /\ \E now \in 1..MaxTime :
         Commit(NewWinner(Head(timers).participant, Head(timers).prize, now),
                StateAfterDraw1)

(* The timer callback of the second App (lines 643-656):                   *)
(* eligible[Math.floor(Math.random() * eligible.length)] is undefined when *)
(* eligible is empty.                                                      *)
TimerFire2 ==
    /\ ver = 2
    /\ Running
    /\ timers # <<>>
    /\ LET t == Head(timers)
           picks == IF Len(t.eligible) = 0 THEN {UndefinedValue}
                    ELSE {t.eligible[k] : k \in 1..Len(t.eligible)}
       IN  \E winnerParticipant \in picks, now \in 1..MaxTime :
             Commit(NewWinner(winnerParticipant, t.prize, now),
                    StateAfterDraw2(t.remainingLength))

(* An onClose that sets FINISHED without looking at the Winner list. *)
StateAfterClose1Always(ws, st) == FINISHED

(* An onClose that only hides the modal. *)
StateAfterClose1Kept(ws, st) == st

(* onClose of the winner modal in the first App (lines 278-284). *)
StateAfterClose1(ws, st) == IF Len(ws) >= Len(PRIZES) THEN FINISHED ELSE st

CloseModal1 ==
    /\ ver = 1
    /\ Running
    /\ showWinnerModal
    /\ showWinnerModal' = FALSE
    /\ currentDrawnName' = NullValue
    /\ appState' = StateAfterClose1(winners, appState)
    /\ lastOp' = "close"
    /\ celebration' = "none"
    /\ UNCHANGED <<ver, participants, jar, loaded, crashed, winners,
                   lastWinner, timers>>

(* onClose of the winner modal in the second App (line 671). *)
CloseModal2 ==
    /\ ver = 2
    /\ Running
    /\ showWinnerModal
    /\ showWinnerModal' = FALSE
    /\ lastOp' = "close"
    /\ celebration' = "none"
    /\ UNCHANGED <<ver, participants, jar, loaded, crashed, winners, appState,
                   lastWinner, currentDrawnName, timers>>

(* The reset button is rendered in the finished panel only: isAllFinished  *)
(* in the first App (lines 313, 357-366), no nextPrize in the second       *)
(* (lines 698, 732-741).                                                   *)
ResetRendered ==
    IF ver = 1 THEN isAllFinished(winners, showWinnerModal)
    ELSE nextPrize(winners) = UndefinedValue

(* A reset that forgets the cookie. *)
ResetCookieKept(j) == j

(* What a confirmed reset leaves in the cookie (lines 265, 664). *)
ResetCookie(j) == setCookie(j, APP_STORAGE_KEY, EmptyString, -1)

(* handleReset (lines 261-267, 659-666); confirmed is what window.confirm  *)
(* returned.  The save effect that follows sees an empty list.             *)
HandleReset ==
    /\ Running
    /\ ResetRendered
    /\ \E confirmed \in BOOLEAN :
         IF confirmed
         THEN /\ winners' = <<>>
              /\ appState' = READY
              /\ jar' = SaveEffect(ResetCookie(jar), winners')
              /\ lastOp' = "reset_confirmed"
         ELSE /\ lastOp' = "reset_declined"
              /\ UNCHANGED <<winners, appState, jar>>
    /\ celebration' = "none"
    /\ UNCHANGED <<ver, participants, loaded, crashed, showWinnerModal,
                   lastWinner, currentDrawnName, timers>>

(* The operator reloads the page: a fresh component, the pending timers    *)
(* gone with the old page, the cookies kept.                               *)
Reload ==
    /\ loaded
    /\ winners' = <<>>
    /\ appState' = READY
    /\ showWinnerModal' = FALSE
    /\ lastWinner' = NullValue
    /\ currentDrawnName' = NullValue
    /\ timers' = <<>>
    /\ loaded' = FALSE
    /\ crashed' = FALSE
    /\ lastOp' = "mount"
    /\ celebration' = "none"
    /\ UNCHANGED <<ver, participants, jar>>

Next ==
    \/ LoadEffect
    \/ DrawWinner1
    \/ DrawWinner2
    \/ TimerFire1
    \/ TimerFire2
    \/ CloseModal1
    \/ CloseModal2
    \/ HandleReset
    \/ Reload

Spec == Init /\ [][Next]_vars

(* setTimeout: the browser runs a pending callback once its delay is over, *)
(* unless the page is gone.                                                *)
FairSpec == Spec /\ WF_vars(TimerFire1) /\ WF_vars(TimerFire2)

----------------------------------------------------------------------------
(* Properties of the Winner list. *)

Defined(w) == w.participant # UndefinedValue

(* C1: in every reachable state no participant identifier is referenced    *)
(* by more than one entry of the Winner list.                              *)
C1_ParticipantAtMostOnce ==
    \A i, j \in 1..Len(winners) :
        (i # j /\ Defined(winners[i]) /\ Defined(winners[j]))
            => winners[i].participant.id # winners[j].participant.id

(* A draw has just committed a second Winner while a participant was still *)
(* left over, in a list of two participants with ids.                      *)
C1_Witness ==
    /\ lastOp = "commit"
    /\ Len(winners) >= 2
    /\ Len(participants) > Len(winners)
    /\ \A i \in 1..Len(winners) : Defined(winners[i])

(* C2: in every reachable state no prize id is referenced by more than one *)
(* entry of the Winner list, and the prize a pending timer captured at     *)
(* click time is referenced by none.                                       *)
C2_PrizeAtMostOnce ==
    /\ \A i, j \in 1..Len(winners) :
         i # j => winners[i].prize.id # winners[j].prize.id
    /\ \A k \in 1..Len(timers), i \in 1..Len(winners) :
         timers[k].prize.id # winners[i].prize.id

(* A timer has committed the last of the prizes. *)
C2_Witness ==
    /\ lastOp = "commit"
    /\ {winners[i].prize.id : i \in 1..Len(winners)} = 1..NumPrizes

(* C3: in every reachable state the Winner list is no longer than          *)
(* PRIZES.length.                                                          *)
C3_LengthAtMostPrizes == Len(winners) <= Len(PRIZES)

(* The list is full while a participant who won nothing is left. *)
C3_Witness ==
    /\ Len(winners) = Len(PRIZES)
    /\ Len(participants) > Len(PRIZES)
    /\ lastOp = "load"

----------------------------------------------------------------------------
(* Properties of the draw. *)

DrawOps == {"draw_accepted", "draw_rejected"}

(* The ids of the prizes no Winner of ws references. *)
UnclaimedPrizeIds(ws) ==
    {PRIZES[i].id : i \in 1..Len(PRIZES)} \ {ws[i].prize.id : i \in 1..Len(ws)}

Highest(ids) == CHOOSE m \in ids : \A n \in ids : n <= m

(* C4: every draw that commits appends one Winner whose participant no     *)
(* Winner of the list referenced at the append, and whose prize, fixed     *)
(* when the draw was accepted, is the unclaimed prize of the highest       *)
(* rank/id at that time.                                                   *)
C4_CommitTakesUnclaimed ==
    [][ /\ lastOp' = "draw_accepted" =>
              /\ UnclaimedPrizeIds(winners) # {}
              /\ Last(timers').prize.id = Highest(UnclaimedPrizeIds(winners))
              /\ Last(timers').prize.rank = Highest(UnclaimedPrizeIds(winners))
        /\ lastOp' = "commit" =>
              /\ winners' = Append(winners, Last(winners'))
              /\ \A i \in 1..Len(winners) :
                    winners[i].participant # Last(winners').participant
              /\ Last(winners').prize = Head(timers).prize
              /\ Last(winners').prize.id = Highest(UnclaimedPrizeIds(winners))
      ]_vars

(* The second draw has committed the second highest prize to a participant *)
(* while others were still eligible.                                       *)
C4_Witness ==
    /\ lastOp = "commit"
    /\ Len(winners) = 2
    /\ Last(winners).prize.id = NumPrizes - 1
    /\ Defined(Last(winners))
    /\ Len(participants) > 2

(* C5 as stated: once the Winner list length equals the prize count the    *)
(* state is FINISHED, and every later drawWinner call leaves the Winner    *)
(* list and the state unchanged.                                           *)
C5_FullMeansFinished ==
    [][ /\ Len(winners') = Len(PRIZES) => appState' = FINISHED
        /\ (Len(winners) = Len(PRIZES) /\ lastOp' \in DrawOps) =>
              UNCHANGED <<winners, appState>>
      ]_vars

(* C5, amended: once the Winner list length equals the prize count the     *)
(* state is FINISHED, or in the first App READY for as long as the winner  *)
(* modal of the last draw is shown; closing that modal makes it FINISHED;  *)
(* every later drawWinner call is rejected and leaves the Winner list, the *)
(* state and the timers unchanged.                                         *)
C5_FullMeansFinishedOnceClosed ==
    [][ /\ Len(winners') = Len(PRIZES) =>
              \/ appState' = FINISHED
              \/ ver = 1 /\ appState' = READY /\ showWinnerModal'
        /\ (Len(winners) = Len(PRIZES) /\ lastOp' = "close") =>
              appState' = FINISHED
        /\ (Len(winners) = Len(PRIZES) /\ lastOp' \in DrawOps) =>
              /\ lastOp' = "draw_rejected"
              /\ UNCHANGED <<winners, appState, timers>>
      ]_vars

(* A further draw was called, and rejected, with every prize won, the      *)
(* state FINISHED and a participant who won nothing left.                  *)
C5_Witness ==
    /\ lastOp = "draw_rejected"
    /\ Len(winners) = Len(PRIZES)
    /\ appState = FINISHED
    /\ Len(participants) > Len(PRIZES)
    /\ {winners[i].prize.id : i \in 1..Len(winners)} = 1..NumPrizes

(* C6: the state is DRAWING exactly while a commit timer is pending; a     *)
(* drawWinner call in that state is rejected and changes neither state,    *)
(* Winner list nor timers; at most one timer is ever pending; only an      *)
(* accepted draw schedules a timer, exactly one, and the timer's callback  *)
(* appends exactly one Winner.                                             *)
C6_NoReentrantDraw ==
    [][ /\ (appState = DRAWING /\ lastOp' \in DrawOps) =>
              /\ lastOp' = "draw_rejected"
              /\ UNCHANGED <<appState, winners, timers>>
        /\ Len(timers') <= 1
        /\ (appState' = DRAWING) <=> (timers' # <<>>)
        /\ Len(timers') > Len(timers) =>
              /\ lastOp' = "draw_accepted"
              /\ Len(timers') = Len(timers) + 1
              /\ winners' = winners
        /\ lastOp' = "draw_accepted" => Len(timers') = Len(timers) + 1
        /\ lastOp' = "commit" =>
              /\ Len(timers') = Len(timers) - 1
              /\ Len(winners') = Len(winners) + 1
      ]_vars

(* drawWinner was called, and rejected, while a draw was in flight. *)
C6_Witness ==
    /\ lastOp = "draw_rejected"
    /\ appState = DRAWING
    /\ Len(timers) = 1

(* C7: when no unclaimed prize remains or no participant is eligible,      *)
(* drawWinner is a silent no-op: the state does not become DRAWING, no     *)
(* timer is scheduled and the Winner list is unchanged; with an empty      *)
(* participant list the state never leaves READY.                          *)
C7_NoOpWithoutPrizeOrParticipant ==
    [][ /\ ( /\ lastOp' \in DrawOps
             /\ \/ UnclaimedPrizeIds(winners) = {}
                \/ Len(eligible(participants, winners)) = 0 ) =>
              /\ lastOp' = "draw_rejected"
              /\ UNCHANGED <<appState, timers, winners>>
        /\ Len(participants) = 0 => appState' = READY
      ]_vars

----------------------------------------------------------------------------
(* Properties of reset, of the state machine and of the cookie. *)

(* The persisted record is cleared: no cookie of the storage key is left. *)
RecordCleared(j) == \A i \in 1..Len(j) : j[i].name # APP_STORAGE_KEY

(* C8: a confirmed reset yields an empty Winner list, state READY and a    *)
(* cleared persisted record, whatever the state it was invoked in; a       *)
(* declined one changes nothing.                                           *)
C8_ResetClears ==
    [][ /\ lastOp' = "reset_confirmed" =>
              /\ winners' = <<>>
              /\ appState' = READY
              /\ RecordCleared(jar')
              /\ LoadedWinners(jar') = <<>>
        /\ lastOp' = "reset_declined" =>
              UNCHANGED <<ver, participants, jar, loaded, crashed, winners,
                          appState, showWinnerModal, lastWinner,
                          currentDrawnName, timers>>
      ]_vars

(* A confirmed reset has cleared the record and left the other cookie. *)
C8_Witness ==
    /\ lastOp = "reset_confirmed"
    /\ winners = <<>>
    /\ appState = READY
    /\ jar = <<OtherCookie>>

(* A step of the running component, not the page being replaced. *)
SameInstance == loaded' = TRUE

(* C9 as stated: every change of application state follows one of          *)
(* SETUP -> READY, READY -> DRAWING, DRAWING -> READY (prizes remain),     *)
(* DRAWING -> FINISHED (no prizes remain), FINISHED -> READY (reset).      *)
C9_OnlyListedEdges ==
    [][ (SameInstance /\ appState' # appState) =>
           \/ appState = SETUP /\ appState' = READY
           \/ appState = READY /\ appState' = DRAWING
           \/ /\ appState = DRAWING /\ appState' = READY
              /\ UnclaimedPrizeIds(winners') # {}
           \/ /\ appState = DRAWING /\ appState' = FINISHED
              /\ UnclaimedPrizeIds(winners') = {}
           \/ /\ appState = FINISHED /\ appState' = READY
              /\ lastOp' = "reset_confirmed"
      ]_vars

(* C9, amended: every change of application state follows one of           *)
(* READY -> DRAWING (draw accepted), DRAWING -> READY (draw complete; in   *)
(* the second App only if prizes remain), DRAWING -> FINISHED (second App, *)
(* draw complete and no prizes remain), READY -> FINISHED (no prizes       *)
(* remain: the startup load of a complete history, or in the first App     *)
(* closing the winner modal), FINISHED -> READY (reset).  SETUP is never   *)
(* entered.                                                                *)
C9_EdgesWithReadyToFinished ==
    [][ /\ appState' # SETUP
        /\ (SameInstance /\ appState' # appState) =>
           \/ /\ appState = READY /\ appState' = DRAWING
              /\ lastOp' = "draw_accepted"
           \/ /\ appState = DRAWING /\ appState' = READY
              /\ lastOp' = "commit"
              /\ ver = 2 => UnclaimedPrizeIds(winners') # {}
           \/ /\ appState = DRAWING /\ appState' = FINISHED
              /\ lastOp' = "commit"
              /\ ver = 2
              /\ UnclaimedPrizeIds(winners') = {}
           \/ /\ appState = READY /\ appState' = FINISHED
              /\ UnclaimedPrizeIds(winners') = {}
              /\ \/ lastOp' = "load"
                 \/ lastOp' = "close" /\ ver = 1
           \/ /\ appState = FINISHED /\ appState' = READY
              /\ lastOp' = "reset_confirmed"
      ]_vars

(* The first App has gone from READY to FINISHED on closing the modal of   *)
(* the last prize.                                                         *)
C9_Witness ==
    /\ ver = 1
    /\ lastOp = "close"
    /\ appState = FINISHED
    /\ Len(winners) = Len(PRIZES)

----------------------------------------------------------------------------
(* Properties of startup and of persistence. *)

(* The cookies hold no record, or one that is no JSON, or the JSON null. *)
MissingOrMalformed(j) ==
    LET saved == getCookie(j, APP_STORAGE_KEY)
    IN  \/ saved.kind \in {"empty", "garbage"}
        \/ saved.kind = "json" /\ saved.value = NullValue

C12_RecordFollowsWinners ==
    [][ /\ lastOp' = "load" =>
              /\ ~loaded /\ loaded'
              /\ winners = <<>>
              /\ winners' = LoadedWinners(jar)
        /\ ~loaded => lastOp' = "load"
        /\ loaded' => LoadedWinners(jar') = winners'
        /\ lastOp' = "reset_confirmed" => RecordCleared(jar')
      ]_vars

(* old is new without its last element. *)
ExtendsByOne(old, new) ==
    /\ Len(new) = Len(old) + 1
    /\ SubSeq(new, 1, Len(old)) = old

(* C13 as stated: every step other than a confirmed reset leaves the       *)
(* Winner list unchanged or extends it by exactly one record at the end.   *)
C13_AppendOnly ==
    [][ (SameInstance /\ lastOp' # "reset_confirmed") =>
           \/ winners' = winners
           \/ ExtendsByOne(winners, winners')
      ]_vars

(* C13, amended: every step other than a confirmed reset and the startup   *)
(* load, which replaces the initial empty list by the whole persisted      *)
(* history, leaves the Winner list unchanged or extends it by exactly one  *)
(* record at the end; the startup load only ever replaces an empty list.   *)
C13_AppendOnlyAfterLoad ==
    [][ /\ (SameInstance /\ lastOp' \notin {"reset_confirmed", "load"}) =>
              \/ winners' = winners
              \/ lastOp' = "commit" /\ ExtendsByOne(winners, winners')
        /\ lastOp' = "load" => winners = <<>>
      ]_vars

(* The third draw has committed behind the two Winners before it. *)
C13_Witness ==
    /\ lastOp = "commit"
    /\ Len(winners) = 3
    /\ winners[1].prize.id = NumPrizes
    /\ winners[3].prize.id = NumPrizes - 2

----------------------------------------------------------------------------
(* Properties of the timer callback and of what the operator is shown. *)

(* C14 as stated: a pending draw is not cancelled, its timer eventually    *)
(* fires, the callback appends exactly one Winner and the state leaves     *)
(* DRAWING for READY, or for FINISHED if no prizes remain.                 *)
C14_DrawEndsReadyOrFinished ==
    /\ [][ /\ (timers # <<>> /\ SameInstance) =>
                 (timers' = timers \/ lastOp' = "commit")
           /\ lastOp' = "commit" =>
                 /\ ExtendsByOne(winners, winners')
                 /\ appState' = IF UnclaimedPrizeIds(winners') = {}
                                THEN FINISHED ELSE READY
         ]_vars
    /\ (appState = DRAWING) ~> (appState # DRAWING)

(* C14, amended: a pending draw is not cancelled by any step of the        *)
(* component, its timer eventually fires, the callback appends exactly one *)
(* Winner, and the state leaves DRAWING, by that callback only: in the     *)
(* first App always for READY, in the second App for READY if prizes       *)
(* remain and for FINISHED if none does.                                   *)
C14_DrawCompletes ==
    /\ [][ /\ (timers # <<>> /\ SameInstance) =>
                 (timers' = timers \/ lastOp' = "commit")
           /\ (appState = DRAWING /\ SameInstance /\ appState' # DRAWING) =>
                 lastOp' = "commit"
           /\ lastOp' = "commit" =>
                 /\ appState = DRAWING
                 /\ timers' = Tail(timers)
                 /\ ExtendsByOne(winners, winners')
                 /\ Last(winners').prize = Head(timers).prize
                 /\ appState' = IF ver = 2 /\ UnclaimedPrizeIds(winners') = {}
                                THEN FINISHED ELSE READY
         ]_vars
    /\ (appState = DRAWING) ~> (appState # DRAWING)

(* The first App's callback has committed the last prize and left the      *)
(* state READY.                                                            *)
C14_Witness ==
    /\ ver = 1
    /\ lastOp = "commit"
    /\ appState = READY
    /\ UnclaimedPrizeIds(winners) = {}

(* C15: the celebration is signalled by the step that appends a Winner,    *)
(* and by no other step, with the isBigWinner flag of the prize recorded   *)
(* in that Winner.                                                         *)
C15_CelebrationPerCommit ==
    [][ /\ lastOp' = "commit" =>
              /\ ExtendsByOne(winners, winners')
              /\ celebration' = IF Last(winners').prize.isBigWinner
                                THEN "major" ELSE "minor"
        /\ celebration' # "none" => lastOp' = "commit"
        /\ winners' = winners => celebration' = "none"
      ]_vars

(* The big prize has been committed and celebrated as major, after a       *)
(* smaller one. *)
C15_Witness ==
    /\ lastOp = "commit"
    /\ celebration = "major"
    /\ Last(winners).prize.isBigWinner
    /\ Len(winners) >= 2
    /\ ~winners[1].prize.isBigWinner

(* C16: in every reachable state, FINISHED implies that every configured   *)
(* prize is referenced by a Winner.                                        *)
C16_FinishedMeansNoPrizeLeft ==
    appState = FINISHED => UnclaimedPrizeIds(winners) = {}

(* FINISHED was set at startup from a loaded history. *)
C16_Witness ==
    /\ lastOp = "load"
    /\ appState = FINISHED
    /\ Len(winners) = Len(PRIZES)

(* C17: in the first App, while the state is DRAWING currentDrawnName is   *)
(* the name of the participant the pending timer will record, and it still *)
(* is when the timer appends the Winner; in both Apps, whenever the winner *)
(* modal is shown lastWinner is the last entry of the Winner list.         *)
C17_ShownIsRecorded ==
    [][ /\ (ver = 1 /\ appState' = DRAWING) =>
              currentDrawnName' = Str(Head(timers').participant.name)
        /\ (ver = 1 /\ lastOp' = "commit") =>
              currentDrawnName = Str(Last(winners').participant.name)
        /\ showWinnerModal' =>
              /\ winners' # <<>>
              /\ lastWinner' = Last(winners')
      ]_vars

====
